---------------------------- MODULE Spec2Model ----------------------------
(***************************************************************************)
(* Model of the module-verification caches of aptos-core:                  *)
(*   aptos-move/aptos-vm-environment/src/environment.rs                     *)
(*       AptosEnvironment / Environment, ModuleCache, CrossBlockModuleCache *)
(*   aptos-move/block-executor/src/cross_block_caches.rs                    *)
(*       EnvironmentID, CachedAptosEnvironment                              *)
(*                                                                         *)
(* Every operation of CrossBlockModuleCache takes the RwLock of            *)
(* MODULE_CACHE for its whole body, so each is one atomic action.          *)
(***************************************************************************)
EXTENDS Integers, Sequences, FiniteSets, TLC

VARIABLES
    chain,        \* the state view: storage key -> module bytes, or NoValue
    modules,      \* ModuleCache.modules: storage key -> entry, or NoEntry
    invalidated,  \* ModuleCache.invalidated
    ret,          \* the operation that ran last, its arguments and its result
    warm,         \* history: keys traversed with success since the last flush or put
    npub,         \* history: number of module publishes so far
    loaderV1,     \* use_loader_v1_based_on_env(): the process-wide loader toggle
    timedOverride,\* get_timed_feature_override(): the process-wide profile, or None
    config,       \* the on-chain configuration the state view holds
    cachedEnv,    \* CROSS_BLOCK_ENVIRONMENT: NoEnv, or [id, env]
    blockEnv,     \* the environment the executor runs the current block with
    fbuilt,       \* worker -> the (id, env) its fetch call built, or None
    fret,         \* worker -> the environment its fetch call returned, or None
    flog,         \* history: the fetches of the workers, in lock order
    preload,      \* the framework MODULE_CACHE (ArcSwapOption): None, or [arc, map]
    pl,           \* worker -> the maybe_initialize_module_cache call it is in
    pswaps,       \* history: the snapshots of the mappings swapped in, in order
    pret,         \* what the last get_cached returned, and the key it was asked
    wpc,          \* worker -> "idle" | "called" | "done"
    wentry,       \* worker -> the entry it built for its traverse call
    wret,         \* worker -> the result its traverse call returned
    lock,         \* the RwLock of MODULE_CACHE: 0, or the worker that holds it for write
    walk          \* worker -> the traverse call it is in, statement by statement

vars == <<chain, modules, invalidated, ret, warm, npub, loaderV1, timedOverride, config,
          cachedEnv, blockEnv, fbuilt, fret, flog, preload, pl, pswaps, pret,
          wpc, wentry, wret, lock, walk>>

fetchVars == <<fbuilt, fret, flog>>
preloadVars == <<preload, pl, pswaps, pret>>
envVars == <<loaderV1, timedOverride, config, cachedEnv, blockEnv, fetchVars, preloadVars>>
lockVars == <<lock, walk>>
workerVars == <<wpc, wentry, wret, lockVars>>

-----------------------------------------------------------------------------
(* Bounds of the model. *)

\* Module publishes (changes of on-chain module bytes) in one behaviour.
MaxPublish == 1

\* Environments stored in CROSS_BLOCK_ENVIRONMENT, one after the other, before
\* the on-chain configuration stops changing.
MaxEnv == 2

-----------------------------------------------------------------------------
(* Storage keys and module bytes. *)

\* StateKey::from_address_and_module_name(addr, name): one key per module id.
Keys == {"A", "B", "C", "D"}

\* The bytes of a module, by what the loader reads from them: the (address,
\* name) the compiled module declares, its immediate dependencies in
\* declaration order, which check of the verifier (if any) rejects it, and a
\* version that tells apart two publications of the same key.
\*   check: "ok" | "parse" | "local" | "link"
Bin(self, deps, check, v) ==
    [self |-> self, deps |-> deps, check |-> check, v |-> v]

M(self, deps) == Bin(self, deps, "ok", 1)

\* get_state_value(key) = Ok(None): nothing is stored under the key.
NoValue == Bin("-", <<>>, "absent", 0)

Snapshot(a, b, c, d) == [k \in Keys |->
    CASE k = "A" -> a [] k = "B" -> b [] k = "C" -> c [] OTHER -> d]

\* The state views a behaviour may start from.
Snapshots == {
    \* A -> B -> C, D alone
    Snapshot(M("A", <<"B">>), M("B", <<"C">>), M("C", <<>>), M("D", <<>>)),
    \* diamond A -> B, A -> C, B -> D, C -> D
    Snapshot(M("A", <<"B", "C">>), M("B", <<"D">>), M("C", <<"D">>), M("D", <<>>)),
    \* cycle A -> B -> A
    Snapshot(M("A", <<"B">>), M("B", <<"A">>), M("C", <<"A">>), NoValue),
    \* cycle A -> B -> C -> A, D -> A
    Snapshot(M("A", <<"B">>), M("B", <<"C">>), M("C", <<"A">>), M("D", <<"A">>)),
    \* cycles A -> B -> A and B -> C -> B, the second met first
    Snapshot(M("A", <<"B">>), M("B", <<"C", "A">>), M("C", <<"B">>), NoValue),
    \* A -> B -> C -> B: a cycle that does not pass through A
    Snapshot(M("A", <<"D", "B">>), M("B", <<"C">>), M("C", <<"B">>), M("D", <<>>)),
    \* C is missing from the state view
    Snapshot(M("A", <<"D", "B">>), M("B", <<"C">>), NoValue, M("D", <<>>)),
    \* the bytes stored under B declare the name C; D does not deserialize
    Snapshot(M("A", <<"D", "B">>), Bin("C", <<>>, "ok", 1), M("C", <<"B">>),
             Bin("D", <<>>, "parse", 1)),
    \* B fails the final verification, and D is missing
    Snapshot(M("A", <<"B", "D">>), Bin("B", <<"C">>, "link", 1), M("C", <<>>),
             NoValue),
    \* D fails the local verification
    Snapshot(M("A", <<"B">>), M("B", <<"C", "D">>), M("C", <<>>),
             Bin("D", <<>>, "local", 1)),
    \* D is missing, and is read after B, whose dependency C depends on it
    Snapshot(M("A", <<"B", "D">>), M("B", <<"C">>), M("C", <<"D">>), NoValue)
}

\* The bytes a publish may store under a key.
Upgrades(k) ==
    CASE k = "B" -> {Bin("B", <<"D">>, "ok", 2)}
      [] k = "C" -> {Bin("C", <<>>, "ok", 2)}
      [] OTHER   -> {}

-----------------------------------------------------------------------------
(* The on-chain configuration and Environment::new. *)

\* An Option: <<>> is None, <<x>> is Some(x).
None == <<>>
Some(x) == <<x>>

LoaderV2 == "ENABLE_LOADER_V2"
DelayedFields == "AGGREGATOR_V2_DELAYED_FIELDS"
OtherFlag == "OTHER_FLAG"
Flags == {LoaderV2, DelayedFields, OtherFlag}

\* Features::default(): the baseline feature set.
DefaultFeatures == {DelayedFields, OtherFlag}

\* ChainId::test() and one production chain.
ChainIdTest == 4
ChainIdMainnet == 1

\* Mutant: the on-chain value of the flag is kept.
OverrideLoader_KeepsOnChain(fetched, v1) == fetched

\* Features with the loader override applied (Environment::new, lines 178-185).
OverrideLoader(fetched, v1) ==
    IF v1 THEN fetched \ {LoaderV2} ELSE fetched \cup {LoaderV2}

\* The profiles set_timed_feature_override may have set for the process.
Profiles == {"testing"}
Overrides == {None} \cup {Some(p) : p \in Profiles}

\* TimedFeaturesBuilder::new(chain_id, timestamp), with_override_profile
\* when get_timed_feature_override() is Some, then build() (lines 193-197):
\* the timed features are a function of the chain, of the last
\* reconfiguration time and of the profile that overrides them.
TimedFeaturesBuild(chain_id, timestamp, ovr) ==
    IF ovr = None
    THEN [chain |-> chain_id, time |-> timestamp]
    ELSE [chain |-> chain_id, time |-> timestamp, override |-> ovr[1]]

\* get_gas_parameters(features, state_view): (gas_params, storage_gas_params,
\* gas_feature_version); without a gas schedule on chain both are errors and
\* the version is 0.
GetGasParameters(features, cfg) ==
    IF cfg.gas = None
    THEN [gas_params |-> [ok |-> FALSE, val |-> "gas schedule not found"],
          storage_gas_params |-> [ok |-> FALSE, val |-> "gas schedule not found"],
          gas_feature_version |-> 0]
    ELSE [gas_params |-> [ok |-> TRUE, val |-> cfg.gas[1].params],
          storage_gas_params |-> [ok |-> TRUE, val |-> cfg.gas[1].params],
          gas_feature_version |-> cfg.gas[1].version]

\* Mutant: the type builder is always the one of the production limits.
TyBuilder_Prod(gas) == "limit-1"

\* aptos_prod_ty_builder / aptos_default_ty_builder: the type-size limits come
\* from the resolved gas parameters, or are the defaults.
TyBuilder(gas) ==
    IF gas.gas_params.ok THEN gas.gas_params.val.ty_limit ELSE "default"

\* aptos_prod_vm_config(features, timed_features, ty_builder).
ProdVmConfig(features, timed_features, ty_builder) ==
    [verifier |-> features,
     timed |-> timed_features,
     ty_builder |-> ty_builder,
     delayed_field_optimization_enabled |-> FALSE]

\* aptos_natives_with_builder(builder, inject_create_signer_for_gov_sim): the
\* native table, by the gas parameters it charges and what it holds.
Natives(gas, inject, hook) ==
    [native_gas |-> IF gas.gas_params.ok THEN gas.gas_params.val.price ELSE 0,
     misc_gas |-> IF gas.gas_params.ok THEN gas.gas_params.val.price ELSE 0,
     create_signer |-> inject,
     gas_hook |-> hook]

\* Mutant: the chain identity read is always that of the production chain.
ChainIdFetchConfig_Mainnet(cfg) == ChainIdMainnet

\* ChainId::fetch_config(state_view).unwrap_or_else(ChainId::test) (line 188)
ChainIdFetchConfig(cfg) ==
    IF cfg.chain_id = None THEN ChainIdTest ELSE cfg.chain_id[1]

\* Environment::new(state_view, inject_create_signer_for_gov_sim, gas_hook).
\* `arc` names the instance: 0 for an Environment that is in no cache, n for
\* the n-th Environment stored in CROSS_BLOCK_ENVIRONMENT.
EnvironmentNew(cfg, v1, ovr, inject, hook) ==
    LET fetched == IF cfg.features = None THEN DefaultFeatures ELSE cfg.features[1]
        features == OverrideLoader(fetched, v1)
        chain_id == ChainIdFetchConfig(cfg)
        timestamp == IF cfg.reconfig = None THEN 0 ELSE cfg.reconfig[1]
        timed_features == TimedFeaturesBuild(chain_id, timestamp, ovr)
        gas == GetGasParameters(features, cfg)
    IN  [chain_id |-> chain_id,
         features |-> features,
         timed_features |-> timed_features,
         gas_feature_version |-> gas.gas_feature_version,
         gas_params |-> gas.gas_params,
         storage_gas_params |-> gas.storage_gas_params,
         natives |-> Natives(gas, inject, hook),
         vm_config |-> ProdVmConfig(features, timed_features, TyBuilder(gas)),
         inject_create_signer_for_gov_sim |-> inject,
         arc |-> 0]

\* Mutant: the optimization is enabled whatever the features.
TryEnableDelayedFieldOptimization_Always(env) ==
    [env EXCEPT !.vm_config.delayed_field_optimization_enabled = TRUE]

\* Environment::try_enable_delayed_field_optimization.
TryEnableDelayedFieldOptimization(env) ==
    IF DelayedFields \in env.features
    THEN [env EXCEPT !.vm_config.delayed_field_optimization_enabled = TRUE]
    ELSE env

\* AptosEnvironment::new
AptosEnvironmentNew(cfg, v1, ovr) == EnvironmentNew(cfg, v1, ovr, FALSE, FALSE)

\* AptosEnvironment::new_with_gas_hook
NewWithGasHook(cfg, v1, ovr) == EnvironmentNew(cfg, v1, ovr, FALSE, TRUE)

\* AptosEnvironment::new_with_injected_create_signer_for_gov_sim
NewWithInjectedCreateSignerForGovSim(cfg, v1, ovr) ==
    EnvironmentNew(cfg, v1, ovr, TRUE, FALSE)

\* AptosEnvironment::new_with_delayed_field_optimization_enabled.
NewWithDelayedFieldOptimizationEnabled(cfg, v1, ovr) ==
    TryEnableDelayedFieldOptimization(EnvironmentNew(cfg, v1, ovr, TRUE, FALSE))

\* Mutant: the gas parameters are serialized into the id as well.
EnvironmentID_WithGasParams(env) ==
    <<env.chain_id, env.features, env.timed_features, env.gas_feature_version,
      env.vm_config, env.gas_params>>

\* EnvironmentID::new(env): the serialization of the five values.
EnvironmentID(env) ==
    <<env.chain_id, env.features, env.timed_features, env.gas_feature_version,
      env.vm_config>>

\* CROSS_BLOCK_ENVIRONMENT holding None.
NoEnv == None

\* The gas schedules and configurations the state view may hold.
GasA == [version |-> 1, params |-> [ty_limit |-> "limit-1", price |-> 1]]
GasB == [version |-> 1, params |-> [ty_limit |-> "limit-1", price |-> 2]]
Genesis == [features |-> None, chain_id |-> None, reconfig |-> None, gas |-> None]
Configs == {
    Genesis,
    [features |-> Some({OtherFlag}), chain_id |-> Some(ChainIdMainnet),
     reconfig |-> Some(1), gas |-> Some(GasA)],
    [features |-> Some({OtherFlag, DelayedFields}), chain_id |-> Some(ChainIdMainnet),
     reconfig |-> Some(1), gas |-> Some(GasA)],
    [features |-> Some({OtherFlag, DelayedFields}), chain_id |-> Some(ChainIdMainnet),
     reconfig |-> Some(1), gas |-> Some(GasB)],
    [features |-> Some({OtherFlag, LoaderV2}), chain_id |-> Some(ChainIdMainnet),
     reconfig |-> Some(1), gas |-> Some(GasA)]
}

-----------------------------------------------------------------------------
(* ModuleStorageEntry and Module. *)

\* No verified module: an entry that is "locally parsed, unverified".
NoModule == [bytes |-> NoValue, env |-> None, by |-> -1]

\* Arc<Module>: the verified module built from `bytes` by the runtime
\* environment `env` (its EnvironmentID), in the traverse call of caller `by`.
Module(bytes, env, by) == [bytes |-> bytes, env |-> env, by |-> by]

\* ModuleStorageEntry::from_state_value: an unverified entry.
UnverifiedEntry(bytes) == [bytes |-> bytes, module |-> NoModule]

\* ModuleStorageEntry::make_verified / from_state_value_and_verified_module.
VerifiedEntry(bytes, module) == [bytes |-> bytes, module |-> module]

\* No entry under a key of the HashMap.
NoEntry == [bytes |-> NoValue, module |-> NoModule]

\* ModuleStorageEntry::is_verified.
IsVerified(entry) == entry.module # NoModule

\* ModuleCache::empty().modules
EmptyModules == [k \in Keys |-> NoEntry]

\* VMResult<Arc<Module>>
Ok(module) == [ok |-> TRUE, module |-> module, code |-> "OK", at |-> "-"]
Err(code, key) == [ok |-> FALSE, module |-> NoModule, code |-> code, at |-> key]

-----------------------------------------------------------------------------
(* ModuleCache::traverse.                                                  *)
(* st is the mutable state of one top-level call: the cache map, the       *)
(* visited set, and four histories, each in order: the keys read from the  *)
(* base view (get_state_value calls), the keys whose final verification    *)
(* ran (build_verified_module calls, those that returned an error          *)
(* included), the bytes of the entries inserted (modules.insert calls),    *)
(* the keys of the frames an error                                         *)
(* returned through, the innermost first, and the calls of traverse begun. *)
(* cx is what the call does not change: the base view, the keys whose      *)
(* read fails, the runtime environment and the caller.                     *)

\* runtime_environment.paranoid_check_module_address_and_name
ParanoidCheck(cm, key) == cm.self = key

\* Mutant: the result of the check is dropped.
CheckAddressAndName_Dropped(cm, key) == TRUE

\* The check of lines 292-296 on the entry of the call; its Err leaves the
\* call with `?` (line 297).
CheckAddressAndName(cm, key) == ParanoidCheck(cm, key)

\* runtime_environment.build_locally_verified_module
LocallyVerifies(cm) == cm.check # "local"

\* runtime_environment.build_verified_module
FinallyVerifies(cm) == cm.check # "link"

\* ModuleStorageEntry::from_state_value succeeds
Deserializes(cm) == cm.check # "parse"

\* Mutant: the lookup of a dependency in the cache always misses.
CachedEntry_Miss(mods, dep_key) == NoEntry

\* self.modules.get(&dep_key) (line 307)
CachedEntry(mods, dep_key) == mods[dep_key]

\* Mutant: a cached verified dependency is not taken.
TryAsVerifiedModule_Never(dep_entry) == FALSE

\* Mutant: every dependency entry is taken for a verified one.
TryAsVerifiedModule_Always(dep_entry) == TRUE

\* dep_entry.try_as_verified_module() is Some (line 321)
TryAsVerifiedModule(dep_entry) == IsVerified(dep_entry)

\* Mutant: the linker error names the module being processed.
MissingDependencyError_NamesParent(key, dep_key) == Err("LINKER_ERROR", key)

\* module_linker_error!(addr, name) (line 317)
MissingDependencyError(key, dep_key) == Err("LINKER_ERROR", dep_key)

\* Mutant: the entry is inserted as it was given, not made verified.
InsertVerified_AsGiven(mods, key, verified_entry) ==
    [mods EXCEPT ![key] = UnverifiedEntry(verified_entry.bytes)]

\* Mutant: the verified entry is not inserted.
InsertVerified_Dropped(mods, key, verified_entry) == mods

\* self.modules.insert(key, verified_entry) (lines 348-351)
InsertVerified(mods, key, verified_entry) == [mods EXCEPT ![key] = verified_entry]

\* Mutant: a failed read is taken for a missing module.
ReadError_AsMissing(key, dep_key) == Err("LINKER_ERROR", dep_key)

\* get_state_value(&k) is Err: map_err to STORAGE_ERROR, at
\* Location::Undefined (lines 313-316)
ReadError(key, dep_key) == Err("STORAGE_ERROR", "-")

\* An error leaves the frame of `key` with `?`.
Unwind(r, key) == [r EXCEPT !.st.stack = Append(@, key)]

\* A call of ModuleCache::traverse begins: the key and bytes of its entry,
\* and the numbers of reads and of insertions made before it.
Frame(key, cm, reads, ins) ==
    [key |-> key, bytes |-> cm, reads |-> Len(reads), ins |-> Len(ins)]

\* Mutant: the key is not remembered.
VisitedInsert_Forgets(visited, dep_key) == visited

\* visited.insert(dep_key.clone()) (line 326): the set afterwards.
VisitedInsert(visited, dep_key) == visited \cup {dep_key}

RECURSIVE TraverseRec(_, _, _, _)
RECURSIVE VisitDeps(_, _, _, _, _)

\* The loop over immediate_dependencies_iter(), from its i-th dependency on.
VisitDeps(st, key, deps, i, cx) ==
    IF i > Len(deps) THEN [st |-> st, res |-> Ok(NoModule)]
    ELSE
    LET dep_key == deps[i]
        found == CachedEntry(st.modules, dep_key)
        cached == found # NoEntry
        read == [st EXCEPT !.reads = Append(@, dep_key)]
    IN
    IF ~cached /\ dep_key \in cx.bad
        THEN [st |-> read, res |-> ReadError(key, dep_key)]
    ELSE IF ~cached /\ cx.view[dep_key] = NoValue
        THEN [st |-> read, res |-> MissingDependencyError(key, dep_key)]
    ELSE IF ~cached /\ ~Deserializes(cx.view[dep_key])
        THEN [st |-> read, res |-> Err("CODE_DESERIALIZATION_ERROR", dep_key)]
    ELSE
    LET dep_entry == IF cached THEN found
                     ELSE UnverifiedEntry(cx.view[dep_key])
        st1 == IF cached THEN st ELSE read
    IN
    IF TryAsVerifiedModule(dep_entry) THEN VisitDeps(st1, key, deps, i + 1, cx)
    ELSE IF dep_key \notin st1.visited
        THEN LET r == TraverseRec([st1 EXCEPT !.visited = VisitedInsert(@, dep_key)],
                                  dep_entry, dep_key, cx)
             IN  IF r.res.ok THEN VisitDeps(r.st, key, deps, i + 1, cx) ELSE r
    ELSE [st |-> st1, res |-> Err("CYCLIC_MODULE_DEPENDENCY", key)]

\* ModuleCache::traverse(entry, address, module_name, base_view, visited, env)
TraverseRec(st0, entry, key, cx) ==
    LET cm == entry.bytes
        st == [st0 EXCEPT !.entered = Append(@, Frame(key, cm, st0.reads, st0.ins))]
    IN
    IF ~CheckAddressAndName(cm, key)
        THEN Unwind([st |-> st, res |-> Err("MODULE_ADDRESS_OR_NAME_MISMATCH", key)], key)
    ELSE IF ~LocallyVerifies(cm)
        THEN Unwind([st |-> st, res |-> Err("VERIFICATION_ERROR", key)], key)
    ELSE
    LET d == VisitDeps(st, key, cm.deps, 1, cx) IN
    IF ~d.res.ok THEN Unwind(d, key)
    ELSE
    LET called == [d.st EXCEPT !.built = Append(@, key)] IN
    IF ~FinallyVerifies(cm)
        THEN Unwind([st |-> called, res |-> Err("VERIFICATION_ERROR", key)], key)
    ELSE
    LET module == Module(cm, cx.env, cx.by) IN
        [st |-> [called EXCEPT !.modules = InsertVerified(@, key, VerifiedEntry(cm, module)),
                               !.ins = Append(@, cm)],
         res |-> Ok(module)]

\* CrossBlockModuleCache::traverse: a fresh visited set, then the walk.
CacheTraverse(mods, entry, key, view, bad, env, by) ==
    TraverseRec([modules |-> mods, visited |-> {}, reads |-> <<>>, built |-> <<>>,
                 ins |-> <<>>, stack |-> <<>>, entered |-> <<>>],
                entry, key,
                [view |-> view, bad |-> bad, env |-> env, by |-> by])

\* Mutant: flush clears only a cache whose flag is set.
CacheFlush_OnlyIfInvalidated(cache) ==
    IF cache.invalidated
    THEN [invalidated |-> FALSE, modules |-> EmptyModules]
    ELSE cache

\* ModuleCache::flush
CacheFlush(cache) == [invalidated |-> FALSE, modules |-> EmptyModules]

\* Mutant: the flag is reset and the entries are kept.
CacheFlushIfInvalidated_KeepsEntries(cache) == [cache EXCEPT !.invalidated = FALSE]

\* Mutant: the entries are cleared whatever the flag.
CacheFlushIfInvalidated_Unconditional(cache) ==
    [invalidated |-> FALSE, modules |-> EmptyModules]

\* ModuleCache::flush_if_invalidated_and_mark_valid
CacheFlushIfInvalidated(cache) ==
    IF cache.invalidated
    THEN [invalidated |-> FALSE, modules |-> EmptyModules]
    ELSE cache

\* Mutant: mark_invalid clears the entries at once.
CacheMarkInvalid_ClearsEntries(cache) ==
    [invalidated |-> TRUE, modules |-> EmptyModules]

\* Mutant: the flag is not set.
CacheMarkInvalid_Noop(cache) == cache

\* CrossBlockModuleCache::mark_invalid
CacheMarkInvalid(cache) == [cache EXCEPT !.invalidated = TRUE]

\* Mutant: a put marks the cache valid.
CacheStore_MarksValid(cache, key, entry) ==
    [invalidated |-> FALSE, modules |-> [cache.modules EXCEPT ![key] = entry]]

\* CrossBlockModuleCache::store_module_storage_entry
CacheStore(cache, key, entry) == [cache EXCEPT !.modules[key] = entry]

\* CrossBlockModuleCache::get_module_storage_entry
CacheGet(cache, key) == cache.modules[key]

\* The ModuleCache behind the lock of MODULE_CACHE.
Cache == [invalidated |-> invalidated, modules |-> modules]

-----------------------------------------------------------------------------
(* ModuleCache::traverse, statement by statement.                          *)
(* A call in progress is its stack of frames [key, bytes, i]: the module   *)
(* of the frame and the position of the frame, 0 before the checks of      *)
(* lines 292-302, i in the loop at the i-th dependency, Len(deps) + 1 at   *)
(* the final verification of lines 343-352.                                *)

\* No call in progress.
IdleWalk ==
    [pc |-> "idle", key |-> "-", bytes |-> NoValue, stack |-> <<>>,
     visited |-> {}, reads |-> <<>>, built |-> <<>>, ins |-> <<>>,
     unwound |-> <<>>, entered |-> <<>>,
     m0 |-> EmptyModules, inv0 |-> FALSE, res |-> Ok(NoModule)]

\* CrossBlockModuleCache::traverse, lines 376-378: the first frame, with a
\* fresh visited set; m0 and inv0 record the cache the call found.
StartWalk(cache, entry, key) ==
    [pc |-> "walking", key |-> key, bytes |-> entry.bytes,
     stack |-> <<[key |-> key, bytes |-> entry.bytes, i |-> 0]>>,
     visited |-> {}, reads |-> <<>>, built |-> <<>>, ins |-> <<>>,
     unwound |-> <<>>,
     entered |-> <<Frame(key, entry.bytes, <<>>, <<>>)>>,
     m0 |-> cache.modules, inv0 |-> cache.invalidated, res |-> Ok(NoModule)]

\* An error returned with `?`: every frame returns it, the innermost first.
FailWalk(wk, mods, res) ==
    LET n == Len(wk.stack) IN
    [walk |-> [wk EXCEPT !.pc = "over", !.stack = <<>>, !.res = res,
                         !.unwound = [j \in 1..n |-> wk.stack[n + 1 - j].key]],
     modules |-> mods]

\* One statement of the frame on top of the stack, on the cache as it is now.
StepWalk(wk, mods, cx) ==
    LET n == Len(wk.stack)
        f == wk.stack[n]
        cm == f.bytes
    IN
    IF f.i = 0 THEN
        IF ~CheckAddressAndName(cm, f.key)
            THEN FailWalk(wk, mods, Err("MODULE_ADDRESS_OR_NAME_MISMATCH", f.key))
        ELSE IF ~LocallyVerifies(cm)
            THEN FailWalk(wk, mods, Err("VERIFICATION_ERROR", f.key))
        ELSE [walk |-> [wk EXCEPT !.stack[n].i = 1], modules |-> mods]
    ELSE IF f.i > Len(cm.deps) THEN
        LET called == [wk EXCEPT !.built = Append(@, f.key)] IN
        IF ~FinallyVerifies(cm)
            THEN FailWalk(called, mods, Err("VERIFICATION_ERROR", f.key))
        ELSE
        LET module == Module(cm, cx.env, cx.by)
            done == [called EXCEPT !.ins = Append(@, cm)]
        IN  [walk |-> IF n = 1
                      THEN [done EXCEPT !.pc = "over", !.stack = <<>>,
                                        !.res = Ok(module)]
                      ELSE [done EXCEPT !.stack =
                               [SubSeq(@, 1, n - 1) EXCEPT ![n - 1].i = @ + 1]],
             modules |-> InsertVerified(mods, f.key, VerifiedEntry(cm, module))]
    ELSE
    LET dep_key == cm.deps[f.i]
        found == CachedEntry(mods, dep_key)
        cached == found # NoEntry
        read == [wk EXCEPT !.reads = Append(@, dep_key)]
    IN
    IF ~cached /\ dep_key \in cx.bad
        THEN FailWalk(read, mods, ReadError(f.key, dep_key))
    ELSE IF ~cached /\ cx.view[dep_key] = NoValue
        THEN FailWalk(read, mods, MissingDependencyError(f.key, dep_key))
    ELSE IF ~cached /\ ~Deserializes(cx.view[dep_key])
        THEN FailWalk(read, mods, Err("CODE_DESERIALIZATION_ERROR", dep_key))
    ELSE
    LET dep_entry == IF cached THEN found ELSE UnverifiedEntry(cx.view[dep_key])
        wk1 == IF cached THEN wk ELSE read
    IN
    IF TryAsVerifiedModule(dep_entry)
        THEN [walk |-> [wk1 EXCEPT !.stack[n].i = @ + 1], modules |-> mods]
    ELSE IF dep_key \notin wk1.visited
        THEN [walk |-> [wk1 EXCEPT
                           !.visited = VisitedInsert(@, dep_key),
                           !.entered = Append(@, Frame(dep_key, dep_entry.bytes,
                                                       wk1.reads, wk1.ins)),
                           !.stack = Append(@, [key |-> dep_key,
                                                bytes |-> dep_entry.bytes,
                                                i |-> 0])],
              modules |-> mods]
    ELSE FailWalk(wk1, mods, Err("CYCLIC_MODULE_DEPENDENCY", f.key))

\* Mutant: the write lock is granted while another thread holds the lock.
TryWrite_NoExclusion(l) == TRUE

\* MODULE_CACHE.0.write(): granted when no thread holds the lock.
TryWrite(l) == l = 0

\* MODULE_CACHE.0.read(): granted when no thread holds the lock for write
\* (a reader holds it for one statement).
TryRead(l) == l = 0

-----------------------------------------------------------------------------
(* The framework preload cache: maybe_initialize_module_cache, get_cached. *)

\* ordered_module_names (lines 106-184), cut to six of its names in their
\* order; gas_schedule is listed twice, as in the source.
FrameworkNames ==
    <<"vector", "transaction_validation", "gas_schedule", "util", "gas_schedule",
      "code">>

FrameworkKeys == {FrameworkNames[i] : i \in 1..Len(FrameworkNames)}

\* The marker module of the warm check (line 97).
Marker == "transaction_validation"

\* What a state view holds of a framework module: whether the read of its
\* state value succeeds, the value (None, or the bytes of version v), and
\* what fetch_verified_module gives: "some" | "none" | "err".
Fw(name, v, verified) ==
    [readable |-> TRUE, value |-> Some([name |-> name, v |-> v]),
     verified |-> verified]
FwAbsent == [readable |-> TRUE, value |-> None, verified |-> "none"]
FwUnreadable == [readable |-> FALSE, value |-> None, verified |-> "none"]

\* A state view of the framework, every module at version v.
Framework(v) == [n \in FrameworkKeys |-> Fw(n, v, "some")]

\* The state views maybe_initialize_module_cache is called with.
FrameworkSnapshots == {
    Framework(1),
    \* the framework after an upgrade
    Framework(2),
    \* version 1 before the module util was added
    [Framework(1) EXCEPT !["util"] = FwAbsent],
    \* a state with no transaction_validation module (a test state)
    [Framework(1) EXCEPT ![Marker] = FwAbsent, !["code"] = FwAbsent],
    \* the verified form of gas_schedule is absent
    [Framework(1) EXCEPT !["gas_schedule"].verified = "none"],
    \* the module util does not verify
    [Framework(1) EXCEPT !["util"].verified = "err"],
    \* the read of the module code fails
    [Framework(1) EXCEPT !["code"] = FwUnreadable]
}

\* HashMap::new() (line 103)
EmptyFramework == [n \in FrameworkKeys |-> None]

\* ModuleStorageEntry::from_state_value_and_verified_module (line 190)
FrameworkEntry(state_value) == [bytes |-> state_value, module |-> state_value]

\* Arc::new(framework) (line 195): `arc` names the instance, the n-th mapping
\* swapped in.
SharedFramework(n, framework) == [arc |-> n, map |-> framework]

\* No call in progress.
IdleLoad ==
    [pc |-> "idle", snap |-> Framework(1), i |-> 0, framework |-> EmptyFramework,
     reads |-> 0]

\* Nothing returned yet by get_cached.
NoGet == [key |-> "-", val |-> None, seen |-> None]

\* Mutant: the marker is never found.
AlreadyWarm_Never(cache) == FALSE

\* Lines 96-100: the loaded mapping holds the marker module.
AlreadyWarm(cache) == cache # None /\ cache[1].map[Marker] # None

\* Mutant: a module is inserted when its state value is present.
BothPresent_ValueOnly(state_value, verified) == state_value # None

\* Line 189: the state value and the verified module are both Some.
BothPresent(state_value, verified) == state_value # None /\ verified = "some"

\* Mutant: the mapping is built in place, in the shared cache.
SharedWhileBuilding_InPlace(shared, framework) ==
    Some([arc |-> 0, map |-> framework])

\* The shared cache after an insert into `framework` (line 191): the local
\* HashMap is not shared before the swap of line 195.
SharedWhileBuilding(shared, framework) == shared

\* One iteration of the loop of lines 185-193, for the i-th listed name.
LoadStep(ld) ==
    LET name == FrameworkNames[ld.i]
        sv == ld.snap[name]
        read == [ld EXCEPT !.reads = @ + 1]
    IN  IF ~sv.readable \/ sv.verified = "err"
        THEN [read EXCEPT !.pc = "panicked"]
        ELSE IF BothPresent(sv.value, sv.verified)
        THEN [read EXCEPT !.i = @ + 1,
                          !.framework[name] = Some(FrameworkEntry(sv.value[1]))]
        ELSE [read EXCEPT !.i = @ + 1]

\* get_cached(key) (lines 198-201)
GetCached(cache, key) == IF cache = None THEN None ELSE cache[1].map[key]

-----------------------------------------------------------------------------
(* The operations, each the whole body of one public function. *)

\* The number of entries of a cache map.
Size(mods) == Cardinality({k \in Keys : mods[k] # NoEntry})

\* What `ret` records of an operation: its name; the key and bytes it was
\* called with and the keys whose read of the base view fails during it; the
\* entry a get returned (or a put stored); the result of a traverse with its
\* reads of the base view (get_state_value calls) and its final verifications
\* (build_verified_module calls) and the bytes it inserted, in order; the
\* environment a fetch returned;
\* the frames an error returned through and the calls of
\* ModuleCache::traverse begun;
\* the invalidated flag it found under the lock (what is_invalidated returns)
\* and the number of entries it found.
Ret(op, key, bytes, bad, val, res, reads, built, env) ==
    [op |-> op, key |-> key, bytes |-> bytes, bad |-> bad, val |-> val,
     res |-> res, reads |-> reads, built |-> built, ins |-> <<>>,
     stack |-> <<>>, entered |-> <<>>, env |-> env,
     inv0 |-> invalidated, n0 |-> Size(modules)]

NoRet ==
    [op |-> "init", key |-> "-", bytes |-> NoValue, bad |-> {}, val |-> NoEntry,
     res |-> Ok(NoModule), reads |-> <<>>, built |-> <<>>, ins |-> <<>>,
     stack |-> <<>>, entered |-> <<>>, env |-> None,
     inv0 |-> FALSE, n0 |-> 0]

SimpleRet(op) ==
    Ret(op, "-", NoValue, {}, NoEntry, Ok(NoModule), <<>>, <<>>, None)

\* The sets of keys whose get_state_value fails during one call.
BadSets == {{}, {"B"}, {"C"}}

\* The keys a caller stores entries under with put.
PutKeys == {"B", "C"}

\* The instances CROSS_BLOCK_ENVIRONMENT has held so far.
Stored(cached) == IF cached = None THEN 0 ELSE cached[1].env.arc

\* Mutant: on a hit the caller gets the environment it built itself.
FetchLocked_ReturnsBuilt(cached, id, env) ==
    IF cached # None /\ id = cached[1].id
    THEN [env |-> env, cached |-> cached]
    ELSE LET shared == [env EXCEPT !.arc = Stored(cached) + 1]
         IN  [env |-> shared, cached |-> Some([id |-> id, env |-> shared])]

\* Mutant: on a miss the cached pair is left as it is.
FetchLocked_NoReplace(cached, id, env) ==
    IF cached # None
    THEN [env |-> IF id = cached[1].id THEN cached[1].env ELSE env,
          cached |-> cached]
    ELSE LET shared == [env EXCEPT !.arc = Stored(cached) + 1]
         IN  [env |-> shared, cached |-> Some([id |-> id, env |-> shared])]

\* The part of fetch that runs under the lock of CROSS_BLOCK_ENVIRONMENT
\* (lines 71-85), for the environment the caller built and its id: the
\* environment returned and the new content of the cache.
FetchLocked(cached, id, env) ==
    IF cached # None /\ id = cached[1].id
    THEN [env |-> cached[1].env, cached |-> cached]
    ELSE LET shared == [env EXCEPT !.arc = Stored(cached) + 1]
         IN  [env |-> shared, cached |-> Some([id |-> id, env |-> shared])]

\* CachedAptosEnvironment::fetch_with_delayed_field_optimization_enabled run
\* by one thread with no other thread in between: the environment returned
\* and the new content of CROSS_BLOCK_ENVIRONMENT.
FetchEnv(cached, cfg, v1, ovr) ==
    LET env == NewWithDelayedFieldOptimizationEnabled(cfg, v1, ovr)
    IN  FetchLocked(cached, EnvironmentID(env), env)

\* fetch, lines 67-68: with no lock held, the caller builds its environment
\* from the state view as it is now, and the id of it.
FBuild(w) ==
    /\ fbuilt[w] = None
    /\ LET env == NewWithDelayedFieldOptimizationEnabled(config, loaderV1,
                                                         timedOverride)
       IN  fbuilt' = [fbuilt EXCEPT ![w] = Some([id |-> EnvironmentID(env),
                                                 env |-> env])]
    /\ ret' = SimpleRet("build")
    /\ UNCHANGED <<chain, modules, invalidated, warm, npub, loaderV1,
                   timedOverride, config, cachedEnv, blockEnv, fret, flog,
                   preloadVars, workerVars>>

\* fetch, lines 71-85: under the lock of CROSS_BLOCK_ENVIRONMENT, the cached
\* environment is returned, or replaced by the one the caller built; the
\* executor runs the block with the environment returned.
FLocked(w) ==
    /\ fbuilt[w] # None
    /\ fret[w] = None
    /\ LET f == FetchLocked(cachedEnv, fbuilt[w][1].id, fbuilt[w][1].env) IN
       /\ cachedEnv' = f.cached
       /\ blockEnv' = Some(f.env)
       /\ fret' = [fret EXCEPT ![w] = Some(f.env)]
       /\ flog' = Append(flog, [id |-> fbuilt[w][1].id, env |-> f.env])
       /\ ret' = [SimpleRet("fetch") EXCEPT !.env = Some(f.env)]
    /\ UNCHANGED <<chain, modules, invalidated, warm, npub, loaderV1,
                   timedOverride, config, fbuilt, preloadVars, workerVars>>

\* CrossBlockModuleCache::traverse(entry, address, module_name, base_view, env),
\* the entry built by the caller from the bytes the base view holds for k.
Traverse(k, bad) ==
    /\ blockEnv # None
    /\ chain[k] # NoValue
    /\ Deserializes(chain[k])
    /\ \E r \in {CacheTraverse(modules, UnverifiedEntry(chain[k]), k, chain, bad,
                               EnvironmentID(blockEnv[1]), 0)} :
           /\ modules' = r.st.modules
           /\ ret' = [Ret("traverse", k, chain[k], bad, NoEntry, r.res,
                          r.st.reads, r.st.built, None)
                          EXCEPT !.ins = r.st.ins, !.stack = r.st.stack,
                                 !.entered = r.st.entered]
           /\ warm' = IF r.res.ok THEN warm \cup {k} ELSE warm
    /\ UNCHANGED <<chain, invalidated, npub, envVars, workerVars>>

\* CrossBlockModuleCache::get_from_cross_block_module_cache(state_key)
Get(k) ==
    /\ ret' = [SimpleRet("get") EXCEPT !.key = k, !.val = CacheGet(Cache, k)]
    /\ UNCHANGED <<chain, modules, invalidated, warm, npub, envVars, workerVars>>

\* CrossBlockModuleCache::store_to_cross_block_module_cache(state_key, entry),
\* the entry built by the caller from the bytes the state view holds for k,
\* verified or not.
Put(k, verified) ==
    /\ blockEnv # None
    /\ chain[k] # NoValue
    /\ Deserializes(chain[k])
    /\ LET entry == IF verified
                    THEN VerifiedEntry(chain[k],
                             Module(chain[k], EnvironmentID(blockEnv[1]), 0))
                    ELSE UnverifiedEntry(chain[k])
           c == CacheStore(Cache, k, entry)
       IN  /\ modules' = c.modules
           /\ invalidated' = c.invalidated
           /\ ret' = [SimpleRet("put") EXCEPT !.key = k, !.bytes = chain[k],
                                              !.val = entry]
    /\ warm' = {}
    /\ UNCHANGED <<chain, npub, envVars, workerVars>>

\* CrossBlockModuleCache::mark_invalid()
MarkInvalid ==
    /\ invalidated' = CacheMarkInvalid(Cache).invalidated
    /\ modules' = CacheMarkInvalid(Cache).modules
    /\ ret' = SimpleRet("mark_invalid")
    /\ UNCHANGED <<chain, warm, npub, envVars, workerVars>>

\* CrossBlockModuleCache::is_invalidated(): the flag, returned in ret.inv0.
IsInvalidated ==
    /\ ret' = SimpleRet("is_invalidated")
    /\ UNCHANGED <<chain, modules, invalidated, warm, npub, envVars, workerVars>>

\* CrossBlockModuleCache::flush_cross_block_module_cache_if_invalidated()
FlushIfInvalidated ==
    /\ invalidated' = CacheFlushIfInvalidated(Cache).invalidated
    /\ modules' = CacheFlushIfInvalidated(Cache).modules
    /\ ret' = SimpleRet("flush_if_invalidated")
    /\ warm' = IF invalidated THEN {} ELSE warm
    /\ UNCHANGED <<chain, npub, envVars, workerVars>>

\* CrossBlockModuleCache::flush()
Flush ==
    /\ invalidated' = CacheFlush(Cache).invalidated
    /\ modules' = CacheFlush(Cache).modules
    /\ ret' = SimpleRet("flush")
    /\ warm' = {}
    /\ UNCHANGED <<chain, npub, envVars, workerVars>>

\* A committed transaction publishes new bytes under k; by the invalidation
\* protocol the commit calls mark_invalid().
Publish(k, bytes) ==
    /\ npub < MaxPublish
    /\ chain[k] # bytes
    /\ chain' = [chain EXCEPT ![k] = bytes]
    /\ npub' = npub + 1
    /\ invalidated' = CacheMarkInvalid(Cache).invalidated
    /\ modules' = CacheMarkInvalid(Cache).modules
    /\ ret' = [SimpleRet("publish") EXCEPT !.key = k, !.bytes = bytes]
    /\ warm' = warm \ {k}
    /\ UNCHANGED <<envVars, workerVars>>

-----------------------------------------------------------------------------
(* The cross-block module cache under sequential callers. *)

Workers == {1, 2, 3}

\* The thread that fetches the environment at the block boundary.
Executor == 1

InitCommon ==
    /\ modules = EmptyModules
    /\ invalidated = FALSE
    /\ ret = NoRet
    /\ warm = {}
    /\ npub = 0
    /\ cachedEnv = NoEnv
    /\ blockEnv = None
    /\ fbuilt = [w \in Workers |-> None]
    /\ fret = [w \in Workers |-> None]
    /\ flog = <<>>
    /\ preload = None
    /\ pl = [w \in Workers |-> IdleLoad]
    /\ pswaps = <<>>
    /\ pret = NoGet
    /\ wpc = [w \in Workers |-> "idle"]
    /\ wentry = [w \in Workers |-> NoEntry]
    /\ wret = [w \in Workers |-> Ok(NoModule)]
    /\ lock = 0
    /\ walk = [w \in Workers |-> IdleWalk]

Init ==
    /\ InitCommon
    /\ chain \in Snapshots
    /\ loaderV1 = FALSE
    /\ timedOverride = None
    /\ config = Genesis

Next ==
    \/ FBuild(Executor)
    \/ FLocked(Executor)
    \/ \E k \in Keys, bad \in BadSets : Traverse(k, bad)
    \/ \E k \in Keys : Get(k)
    \/ \E k \in PutKeys, verified \in BOOLEAN : Put(k, verified)
    \/ MarkInvalid
    \/ IsInvalidated
    \/ FlushIfInvalidated
    \/ Flush
    \/ \E k \in Keys : \E bytes \in Upgrades(k) : Publish(k, bytes)

Spec == Init /\ [][Next]_vars

\* The cache filled by traverse alone: no caller stores an entry with put.
NextTraverse ==
    \/ FBuild(Executor)
    \/ FLocked(Executor)
    \/ \E k \in Keys, bad \in BadSets : Traverse(k, bad)
    \/ \E k \in Keys : Get(k)
    \/ MarkInvalid
    \/ FlushIfInvalidated
    \/ Flush
    \/ \E k \in Keys : \E bytes \in Upgrades(k) : Publish(k, bytes)

SpecTraverse == Init /\ [][NextTraverse]_vars

-----------------------------------------------------------------------------
(* The caches across a change of the on-chain configuration. *)

\* The state view this specification starts from: A -> B -> C, D alone.
ReconfigSnapshots == {
    Snapshot(M("A", <<"B">>), M("B", <<"C">>), M("C", <<>>), M("D", <<>>))
}

\* The modules loaded in this specification.
ReconfigKeys == {"B", "D"}

\* The threads that fetch in this specification: the executor of one block
\* and the executor of the next.
ReconfigFetchers == {1, 2}

\* A committed transaction changes the on-chain configuration.
Reconfigure(cfg) ==
    /\ Stored(cachedEnv) < MaxEnv
    /\ cfg # config
    /\ config' = cfg
    /\ ret' = SimpleRet("reconfigure")
    /\ UNCHANGED <<chain, modules, invalidated, warm, npub, loaderV1,
                   timedOverride, cachedEnv, blockEnv, fetchVars, preloadVars,
                   workerVars>>

InitReconfig ==
    /\ InitCommon
    /\ chain \in ReconfigSnapshots
    /\ loaderV1 \in BOOLEAN
    /\ timedOverride \in Overrides
    /\ config \in Configs

NextReconfig ==
    \/ \E w \in ReconfigFetchers : FBuild(w)
    \/ \E w \in ReconfigFetchers : FLocked(w)
    \/ \E cfg \in Configs : Reconfigure(cfg)
    \/ \E k \in ReconfigKeys : Traverse(k, {})
    \/ \E k \in ReconfigKeys : Get(k)
    \/ MarkInvalid
    \/ FlushIfInvalidated

SpecReconfig == InitReconfig /\ [][NextReconfig]_vars

-----------------------------------------------------------------------------
(* Concurrent callers of fetch: each builds an environment from the state  *)
(* view it was given (lines 67-68), then takes the lock of                 *)
(* CROSS_BLOCK_ENVIRONMENT and compares (lines 71-85).                     *)

NextFetch ==
    \/ \E w \in Workers : FBuild(w)
    \/ \E w \in Workers : FLocked(w)
    \/ \E cfg \in Configs : Reconfigure(cfg)

SpecFetch == InitReconfig /\ [][NextFetch]_vars

-----------------------------------------------------------------------------
(* Worker threads of one block loading the same module. *)

\* The module every worker loads.
WorkerTarget == "A"

\* A worker looks the module up with get; on a hit with a verified entry it
\* uses that module, otherwise it builds an entry from the state view.
WGet(w) ==
    /\ wpc[w] = "idle"
    /\ LET found == CacheGet(Cache, WorkerTarget) IN
       /\ ret' = [SimpleRet("get") EXCEPT !.key = WorkerTarget, !.val = found]
       /\ IF IsVerified(found)
          THEN /\ wpc' = [wpc EXCEPT ![w] = "done"]
               /\ wret' = [wret EXCEPT ![w] = Ok(found.module)]
               /\ UNCHANGED wentry
          ELSE /\ wpc' = [wpc EXCEPT ![w] = "missed"]
               /\ wentry' = [wentry EXCEPT ![w] = UnverifiedEntry(chain[WorkerTarget])]
               /\ UNCHANGED wret
    /\ UNCHANGED <<chain, modules, invalidated, warm, npub, envVars, lockVars>>

\* The worker calls CrossBlockModuleCache::traverse, which runs under the
\* write lock of MODULE_CACHE from its first line to its return.
WTraverse(w) ==
    /\ wpc[w] = "missed"
    /\ LET r == CacheTraverse(modules, wentry[w], WorkerTarget, chain, {},
                              EnvironmentID(blockEnv[1]), w)
       IN  /\ modules' = r.st.modules
           /\ ret' = [Ret("traverse", WorkerTarget, wentry[w].bytes, {}, NoEntry,
                          r.res, r.st.reads, r.st.built, None)
                          EXCEPT !.ins = r.st.ins, !.stack = r.st.stack,
                                 !.entered = r.st.entered]
           /\ wret' = [wret EXCEPT ![w] = r.res]
           /\ warm' = IF r.res.ok THEN warm \cup {WorkerTarget} ELSE warm
    /\ wpc' = [wpc EXCEPT ![w] = "done"]
    /\ UNCHANGED <<chain, invalidated, npub, envVars, wentry, lockVars>>

\* The block has begun: its environment was fetched at the block boundary.
InitBlock ==
    /\ modules = EmptyModules
    /\ invalidated = FALSE
    /\ ret = NoRet
    /\ warm = {}
    /\ npub = 0
    /\ loaderV1 = FALSE
    /\ timedOverride = None
    /\ config = Genesis
    /\ cachedEnv = FetchEnv(None, Genesis, FALSE, None).cached
    /\ blockEnv = Some(FetchEnv(None, Genesis, FALSE, None).env)
    /\ fbuilt = [w \in Workers |-> None]
    /\ fret = [w \in Workers |-> None]
    /\ flog = <<>>
    /\ preload = None
    /\ pl = [w \in Workers |-> IdleLoad]
    /\ pswaps = <<>>
    /\ pret = NoGet
    /\ wpc = [w \in Workers |-> "idle"]
    /\ wentry = [w \in Workers |-> NoEntry]
    /\ wret = [w \in Workers |-> Ok(NoModule)]
    /\ lock = 0
    /\ walk = [w \in Workers |-> IdleWalk]

InitWorkers ==
    /\ InitBlock
    /\ chain \in Snapshots

NextWorkers ==
    \/ \E w \in Workers : WGet(w)
    \/ \E w \in Workers : WTraverse(w)

SpecWorkers == InitWorkers /\ [][NextWorkers]_vars

-----------------------------------------------------------------------------
(* The lock of MODULE_CACHE: threads that traverse statement by statement, *)
(* and threads that call the other operations meanwhile.                   *)

\* The modules the threads traverse, and the threads that traverse.
LockKeys == {"A", "B"}
Walkers == {1, 2}

\* What a traverse call does not change: the base view, the environment of
\* the block, the calling thread.
WalkContext(w) ==
    [view |-> chain, bad |-> {}, env |-> EnvironmentID(blockEnv[1]), by |-> w]

\* CrossBlockModuleCache::traverse, line 376: the write lock is taken.
WLock(w, k) ==
    /\ walk[w].pc = "idle"
    /\ chain[k] # NoValue
    /\ Deserializes(chain[k])
    /\ TryWrite(lock)
    /\ lock' = w
    /\ walk' = [walk EXCEPT ![w] = StartWalk(Cache, UnverifiedEntry(chain[k]), k)]
    /\ UNCHANGED <<chain, modules, invalidated, ret, warm, npub, envVars,
                   wpc, wentry, wret>>

\* One statement of ModuleCache::traverse, the guard of line 376 alive.
WStep(w) ==
    /\ walk[w].pc = "walking"
    /\ LET r == StepWalk(walk[w], modules, WalkContext(w)) IN
       /\ walk' = [walk EXCEPT ![w] = r.walk]
       /\ modules' = r.modules
    /\ UNCHANGED <<chain, invalidated, ret, warm, npub, envVars, lock,
                   wpc, wentry, wret>>

\* The call returns and the guard is dropped (line 386).
WUnlock(w) ==
    /\ walk[w].pc = "over"
    /\ lock' = 0
    /\ walk' = [walk EXCEPT ![w] = [IdleWalk EXCEPT !.pc = "returned"]]
    /\ ret' = [Ret("traverse", walk[w].key, walk[w].bytes, {}, NoEntry,
                   walk[w].res, walk[w].reads, walk[w].built, None)
                   EXCEPT !.ins = walk[w].ins, !.stack = walk[w].unwound,
                          !.entered = walk[w].entered,
                          !.inv0 = walk[w].inv0,
                          !.n0 = Size(walk[w].m0)]
    /\ warm' = IF walk[w].res.ok THEN warm \cup {walk[w].key} ELSE warm
    /\ UNCHANGED <<chain, modules, invalidated, npub, envVars, wpc, wentry, wret>>

\* The state views of this specification.
LockSnapshots == {
    Snapshot(M("A", <<"B", "C">>), M("B", <<"D">>), M("C", <<"D">>), M("D", <<>>)),
    Snapshot(M("A", <<"B">>), M("B", <<"C", "A">>), M("C", <<"B">>), NoValue),
    Snapshot(M("A", <<"B", "D">>), Bin("B", <<"C">>, "link", 1), M("C", <<>>),
             NoValue),
    \* the cycle A -> B -> A
    Snapshot(M("A", <<"B">>), M("B", <<"A">>), M("C", <<"A">>), NoValue),
    \* A depends on itself
    Snapshot(M("A", <<"A">>), M("B", <<"A">>), NoValue, NoValue)
}

InitLock ==
    /\ InitBlock
    /\ chain \in LockSnapshots

NextLock ==
    \/ \E w \in Walkers, k \in LockKeys : WLock(w, k)
    \/ \E w \in Walkers : WStep(w)
    \/ \E w \in Walkers : WUnlock(w)
    \/ \E k \in LockKeys : TryRead(lock) /\ Get(k)
    \/ TryRead(lock) /\ IsInvalidated
    \/ \E k \in PutKeys, verified \in BOOLEAN : TryWrite(lock) /\ Put(k, verified)
    \/ TryWrite(lock) /\ MarkInvalid
    \/ TryWrite(lock) /\ FlushIfInvalidated
    \/ TryWrite(lock) /\ Flush

SpecLock == InitLock /\ [][NextLock]_vars

\* The thread that holds the write lock is running: it executes its next
\* statement, and returns when the walk is over.
SpecLockFair ==
    /\ SpecLock
    /\ \A w \in Walkers : WF_vars(WStep(w)) /\ WF_vars(WUnlock(w))

-----------------------------------------------------------------------------
(* Threads that call maybe_initialize_module_cache, statement by           *)
(* statement, and threads that read with get_cached meanwhile.             *)

\* The threads that call maybe_initialize_module_cache, once each.
Loaders == {1, 2}

\* The keys read with get_cached.
GetKeys == {Marker, "util"}

\* Lines 95-104: the loaded mapping is checked for the marker; the call
\* returns, or starts a new mapping.
PLoad(w, snap) ==
    /\ pl[w].pc = "idle"
    /\ pl' = [pl EXCEPT ![w] =
                 IF AlreadyWarm(preload)
                 THEN [IdleLoad EXCEPT !.pc = "warm", !.snap = snap]
                 ELSE [IdleLoad EXCEPT !.pc = "building", !.snap = snap, !.i = 1]]
    /\ UNCHANGED <<chain, modules, invalidated, ret, warm, npub, loaderV1,
                   timedOverride, config,
                   cachedEnv, blockEnv, fetchVars, preload, pswaps, pret, workerVars>>

\* Lines 185-193: one listed module is read and, if present, inserted.
PStep(w) ==
    /\ pl[w].pc = "building"
    /\ pl[w].i <= Len(FrameworkNames)
    /\ pl' = [pl EXCEPT ![w] = LoadStep(pl[w])]
    /\ preload' = SharedWhileBuilding(preload, LoadStep(pl[w]).framework)
    /\ UNCHANGED <<chain, modules, invalidated, ret, warm, npub, loaderV1,
                   timedOverride, config,
                   cachedEnv, blockEnv, fetchVars, pswaps, pret, workerVars>>

\* Line 195: the new mapping is swapped in.
PSwap(w) ==
    /\ pl[w].pc = "building"
    /\ pl[w].i > Len(FrameworkNames)
    /\ preload' = Some(SharedFramework(Len(pswaps) + 1, pl[w].framework))
    /\ pswaps' = Append(pswaps, pl[w].snap)
    /\ pl' = [pl EXCEPT ![w].pc = "loaded"]
    /\ UNCHANGED <<chain, modules, invalidated, ret, warm, npub, loaderV1,
                   timedOverride, config,
                   cachedEnv, blockEnv, fetchVars, pret, workerVars>>

\* get_cached(key): the mapping is loaded and the key looked up in it.
PGet(k) ==
    /\ pret' = [key |-> k, val |-> GetCached(preload, k), seen |-> preload]
    /\ UNCHANGED <<chain, modules, invalidated, ret, warm, npub, loaderV1,
                   timedOverride, config,
                   cachedEnv, blockEnv, fetchVars, preload, pl, pswaps, workerVars>>

InitPreload ==
    /\ InitCommon
    /\ chain \in ReconfigSnapshots
    /\ loaderV1 = FALSE
    /\ timedOverride = None
    /\ config = Genesis

NextPreload ==
    \/ \E w \in Loaders, snap \in FrameworkSnapshots : PLoad(w, snap)
    \/ \E w \in Loaders : PStep(w)
    \/ \E w \in Loaders : PSwap(w)
    \/ \E k \in GetKeys : PGet(k)

SpecPreload == InitPreload /\ [][NextPreload]_vars

\* The framework before and after an upgrade of its modules.
UpgradeSnapshots == {Framework(1), Framework(2)}

\* The module stored and traversed in the cross-block cache meanwhile.
PreloadCacheKeys == {"B"}

\* A block in progress: the preload cache and the cross-block cache are used
\* side by side.
InitPreloadCache ==
    /\ InitBlock
    /\ chain \in ReconfigSnapshots

NextPreloadCache ==
    \/ \E w \in Loaders, snap \in UpgradeSnapshots : PLoad(w, snap)
    \/ \E w \in Loaders : PStep(w)
    \/ \E w \in Loaders : PSwap(w)
    \/ \E k \in GetKeys : PGet(k)
    \/ \E k \in PreloadCacheKeys : Traverse(k, {})
    \/ \E k \in PreloadCacheKeys, verified \in BOOLEAN : Put(k, verified)
    \/ MarkInvalid
    \/ FlushIfInvalidated
    \/ Flush

SpecPreloadCache == InitPreloadCache /\ [][NextPreloadCache]_vars

-----------------------------------------------------------------------------
(* The dependency graph a state view declares. *)

Range(seq) == {seq[i] : i \in 1..Len(seq)}

Last(seq) == seq[Len(seq)]

\* The immediate dependencies the bytes under k declare.
DepSet(view, k) == Range(view[k].deps)

RECURSIVE Closure(_, _)
Closure(view, S) ==
    LET T == S \cup UNION {DepSet(view, k) : k \in S}
    IN  IF T = S THEN S ELSE Closure(view, T)

\* The modules reachable from k, k included.
Reach(view, k) == Closure(view, {k})

\* k lies on a dependency cycle.
OnCycle(view, k) == k \in Closure(view, DepSet(view, k))

\* The bytes under k are present, declare k, and pass every check.
Sound(view, k) ==
    /\ view[k] # NoValue
    /\ view[k].self = k
    /\ view[k].check = "ok"

\* Every cached entry holds the bytes the view has for its key, and every
\* verified entry has its declared dependencies cached as verified entries.
Consistent(mods, view) ==
    \A k \in Keys :
        /\ mods[k] # NoEntry => mods[k].bytes = view[k]
        /\ IsVerified(mods[k]) => \A d \in DepSet(view, k) : IsVerified(mods[d])

\* The bytes the cache holds under each key (NoValue where it has no entry).
Held(mods) == [k \in Keys |-> mods[k].bytes]

\* Every verified entry has the dependencies its bytes declare cached as
\* verified entries.
Closed(mods) ==
    \A k \in Keys :
        IsVerified(mods[k]) => \A d \in DepSet(Held(mods), k) : IsVerified(mods[d])

\* What the accessors of AptosEnvironment return (lines 82-131).
Accessors(env) ==
    [chain_id |-> env.chain_id,
     features |-> env.features,
     timed_features |-> env.timed_features,
     vm_config |-> env.vm_config,
     gas_feature_version |-> env.gas_feature_version,
     gas_params |-> env.gas_params,
     storage_gas_params |-> env.storage_gas_params,
     inject_create_signer_for_gov_sim |-> env.inject_create_signer_for_gov_sim]

\* The values the fingerprint is computed from.
Fingerprinted(env) ==
    [chain_id |-> env.chain_id,
     features |-> env.features,
     timed_features |-> env.timed_features,
     gas_feature_version |-> env.gas_feature_version,
     vm_config |-> env.vm_config]

\* Worker w has built its environment in this step.
Built(w) == fbuilt[w] = None /\ fbuilt'[w] # None

\* Worker w has passed the locked part of its fetch in this step.
Fetched(w) == fret[w] = None /\ fret'[w] # None

\* The listed modules a state view has both the state value and the
\* verified form of.
PresentIn(snap) ==
    {n \in FrameworkKeys : snap[n].value # None /\ snap[n].verified = "some"}

\* The mapping of exactly those modules, each under its key.
Complete(snap) ==
    [n \in FrameworkKeys |->
        IF n \in PresentIn(snap)
        THEN Some([bytes |-> snap[n].value[1], module |-> snap[n].value[1]])
        ELSE None]

\* The call of loader w has returned in this step.
Loaded(w) == pl[w].pc \in {"idle", "building"} /\ pl'[w].pc \in {"warm", "loaded"}

-----------------------------------------------------------------------------
(* Claims. *)

\* C1 as stated: no get and no traverse ever hands out a verified module
\* whose bytes differ from the bytes now on chain under its key, in every
\* state, the states between mark_invalid() and the next flush included.
C1_NeverStale ==
    /\ (ret.op = "get" /\ IsVerified(ret.val)) => ret.val.bytes = chain[ret.key]
    /\ (ret.op = "traverse" /\ ret.res.ok) => ret.res.module.bytes = chain[ret.key]

\* C1 as amended: a get that finds the invalidated flag clear (every change
\* of bytes has been followed by a flush) never returns a verified module
\* whose bytes differ from those on chain, and a traverse never does.
C1_NeverStaleOnceFlushed ==
    /\ (ret.op = "get" /\ ~ret.inv0 /\ IsVerified(ret.val))
           => ret.val.bytes = chain[ret.key]
    /\ (ret.op = "traverse" /\ ret.res.ok) => ret.res.module.bytes = chain[ret.key]

\* A get returns the verified module of republished bytes after the flush.
C1_Witness ==
    /\ ret.op = "get"
    /\ ~ret.inv0
    /\ IsVerified(ret.val)
    /\ ret.val.bytes.v = 2
    /\ npub > 0

\* C2: once fetch has replaced the cached environment, get serves no entry
\* verified under the previous environment, unless the cache has at least
\* been marked invalidated.
C2_NoEntryOfReplacedEnvironment ==
    (ret.op = "get" /\ IsVerified(ret.val) /\ cachedEnv # None /\ ~ret.inv0)
        => ret.val.module.env = cachedEnv[1].id

\* C3: the workers that loaded the same uncached module all hold one and
\* the same verified module instance.
C3_OneSharedInstance ==
    \A w1, w2 \in Workers :
        (wpc[w1] = "done" /\ wpc[w2] = "done" /\ wret[w1].ok /\ wret[w2].ok)
            => wret[w1].module = wret[w2].module

\* C4: a traverse never runs the final verification of a module
\* whose key already holds a verified entry, be it a dependency or the
\* top-level module.
C4_NeverVerifiedAgain ==
    [][ret'.op = "traverse" =>
          \A i \in 1..Len(ret'.built) : ~IsVerified(modules[ret'.built[i]])]_vars

\* C5 as stated: on an acyclic graph of present, verifiable modules, a
\* traverse that returns Ok leaves every module reachable from the top-level
\* one in the cache as a verified entry, from any cache.
C5_ReachableAllVerified ==
    (/\ ret.op = "traverse"
     /\ ret.res.ok
     /\ \A m \in Reach(chain, ret.key) : Sound(chain, m) /\ ~OnCycle(chain, m))
        => \A m \in Reach(chain, ret.key) : IsVerified(modules[m])

\* C5 as amended: the same, from a cache in which every entry holds the bytes
\* of the base view and every verified entry has its dependencies verified.
C5_ReachableAllVerifiedFromConsistent ==
    [][(/\ ret'.op = "traverse"
        /\ ret'.res.ok
        /\ Consistent(modules, chain)
        /\ \A m \in Reach(chain, ret'.key) : Sound(chain, m) /\ ~OnCycle(chain, m))
           => \A m \in Reach(chain, ret'.key) : IsVerified(modules'[m])]_vars

\* A traverse of a module with three more modules below it succeeded from a
\* cache that already held some of them.
C5_Witness ==
    /\ ret.op = "traverse"
    /\ ret.res.ok
    /\ Cardinality(Reach(chain, ret.key)) = 4
    /\ ret.n0 > 0
    /\ Len(ret.built) \in 2..3
    /\ \A m \in Reach(chain, ret.key) : IsVerified(modules[m])

\* C6: a traverse of a module that was traversed with success before, with
\* no flush and no put since, reads nothing from the base view.
C6_SecondTraverseReadsNothing ==
    [][(ret'.op = "traverse" /\ ret'.key \in warm) => ret'.reads = <<>>]_vars

\* A module with two dependencies was traversed again, after a mark_invalid,
\* and nothing was read.
C6_Witness ==
    /\ ret.op = "traverse"
    /\ ret.res.ok
    /\ ret.key \in warm
    /\ Len(ret.bytes.deps) = 2
    /\ ret.reads = <<>>
    /\ ret.inv0
    /\ ret.n0 = 4

\* C7: from an empty cache, the traverse of a module A on a dependency
\* cycle (every module present and passing its checks, every read
\* succeeding) fails with a cyclic-dependency error that names A, and no
\* module of a cycle is in the cache as verified afterwards.
C7_CycleErrorNamesTraversedModule ==
    [][(/\ ret'.op = "traverse"
        /\ modules = EmptyModules
        /\ ret'.bad = {}
        /\ OnCycle(chain, ret'.key)
        /\ \A m \in Reach(chain, ret'.key) : Sound(chain, m))
           => /\ ret'.res = Err("CYCLIC_MODULE_DEPENDENCY", ret'.key)
              /\ \A m \in Keys : OnCycle(chain, m) => ~IsVerified(modules'[m])]_vars

\* C8 as stated: the traverse of a module with a declared dependency that is
\* neither cached nor in the base view (every read succeeding) fails with a
\* linker error naming such a dependency and inserts nothing under the
\* top-level key.
C8_LinkerErrorNamesMissingDependency ==
    [][LET missing == {d \in Range(ret'.bytes.deps) :
                          modules[d] = NoEntry /\ chain[d] = NoValue}
       IN  (ret'.op = "traverse" /\ ret'.bad = {} /\ missing # {})
               => /\ ret'.res.code = "LINKER_ERROR"
                  /\ ret'.res.at \in missing
                  /\ modules'[ret'.key] = modules[ret'.key]]_vars

\* C8 as amended: such a traverse fails and inserts nothing under the
\* top-level key; and a traverse whose last read finds no value under a key
\* fails with a linker error naming that key.
C8_MissingDependencyFails ==
    [][LET missing == {d \in Range(ret'.bytes.deps) :
                          modules[d] = NoEntry /\ chain[d] = NoValue}
       IN  ret'.op = "traverse" =>
               /\ missing # {} =>
                      (~ret'.res.ok /\ modules'[ret'.key] = modules[ret'.key])
               /\ (/\ ret'.reads # <<>>
                   /\ chain[Last(ret'.reads)] = NoValue
                   /\ Last(ret'.reads) \notin ret'.bad)
                      => ret'.res = Err("LINKER_ERROR", Last(ret'.reads))]_vars

\* A traverse failed with a linker error naming a declared dependency of the
\* top-level module, which has no entry.
C8_Witness ==
    /\ ret.op = "traverse"
    /\ ret.res.code = "LINKER_ERROR"
    /\ ret.res.at \in Range(ret.bytes.deps)
    /\ chain[ret.res.at] = NoValue
    /\ modules[ret.key] = NoEntry
    /\ ret.bad = {}

\* C9: right after mark_invalid() the flag is set and is_invalidated()
\* returns true; after a flush_if_invalidated() that found the flag set, the
\* cache has no entry, the flag is clear, and a get returns nothing.
C9_InvalidateThenFlush ==
    [][/\ ret'.op = "mark_invalid" => invalidated'
       /\ (ret.op = "mark_invalid" /\ ret'.op = "is_invalidated") => ret'.inv0
       /\ (ret'.op = "flush_if_invalidated" /\ invalidated)
              => (modules' = EmptyModules /\ ~invalidated')
       /\ (ret.op = "flush_if_invalidated" /\ ret.inv0 /\ ret'.op = "get")
              => ret'.val = NoEntry
       /\ (ret.op = "flush_if_invalidated" /\ ret.inv0 /\ ret'.op = "is_invalidated")
              => ~ret'.inv0]_vars

\* flush_if_invalidated() found the flag set and four entries, and left none.
C9_Witness ==
    /\ ret.op = "flush_if_invalidated"
    /\ ret.inv0
    /\ ret.n0 = 4
    /\ modules = EmptyModules
    /\ ~invalidated

\* C10: flush_if_invalidated() with the flag clear changes neither an entry
\* nor the flag.
C10_FlushIfValidChangesNothing ==
    [][(ret'.op = "flush_if_invalidated" /\ ~invalidated)
           => (modules' = modules /\ ~invalidated')]_vars

\* flush_if_invalidated() found the flag clear and four entries, and they
\* are all still there, verified.
C10_Witness ==
    /\ ret.op = "flush_if_invalidated"
    /\ ~ret.inv0
    /\ ret.n0 = 4
    /\ \A k \in Keys : IsVerified(modules[k])

\* C11: mark_invalid() sets the flag and leaves the key-to-entry mapping as
\* it was; called with the flag already set it changes nothing.
C11_MarkInvalidOnlySetsFlag ==
    [][ret'.op = "mark_invalid" =>
          /\ modules' = modules
          /\ invalidated'
          /\ invalidated => (invalidated' = invalidated /\ modules' = modules)]_vars

\* mark_invalid() was called twice in a row on a cache of four entries, and
\* the four entries are still there.
C11_Witness ==
    /\ ret.op = "mark_invalid"
    /\ ret.inv0
    /\ ret.n0 = 4
    /\ Size(modules) = 4
    /\ invalidated

\* C12: flush() leaves the cache with no entry and the flag clear, whether
\* it found the flag set or not.
C12_FlushUnconditional ==
    [][ret'.op = "flush" => (modules' = EmptyModules /\ ~invalidated')]_vars

\* flush() found the flag clear and four entries, and left none.
C12_Witness ==
    /\ ret.op = "flush"
    /\ ~ret.inv0
    /\ ret.n0 = 4
    /\ modules = EmptyModules
    /\ ~invalidated

\* C13: from the first statement of a traverse to its return, every step
\* that takes effect is a statement of that traverse (no get, put,
\* mark_invalid, flush or other traverse takes effect); and the call leaves
\* the cache, and returns the result, of a walk run in one piece on the
\* cache it found.
C13_TraverseAtomic ==
    [][\A w \in Workers :
          /\ walk[w].pc \in {"walking", "over"} =>
                 /\ walk'[w] # walk[w]
                 /\ \A v \in Workers \ {w} : walk'[v] = walk[v]
                 /\ invalidated' = invalidated
                 /\ ret' # ret => walk'[w].pc = "returned"
          /\ (walk[w].pc = "over" /\ walk'[w].pc = "returned") =>
                 LET r == CacheTraverse(walk[w].m0, UnverifiedEntry(walk[w].bytes),
                                        walk[w].key, chain, {},
                                        EnvironmentID(blockEnv[1]), w)
                 IN  /\ modules = r.st.modules
                     /\ walk[w].res = r.res
                     /\ walk[w].reads = r.st.reads
                     /\ walk[w].built = r.st.built]_vars

\* A traverse has inserted two entries and has more to insert, after another
\* thread's traverse has returned and entries were stored meanwhile.
C13_Witness ==
    \E w, v \in Workers :
        /\ walk[w].pc = "walking"
        /\ lock = w
        /\ Len(walk[w].built) = 2
        /\ Len(walk[w].stack) >= 1
        /\ walk[v].pc = "returned"
        /\ Size(walk[w].m0) >= 1

\* The keys of the entries the operation recorded has inserted, in order.
Inserted(r) == [i \in 1..Len(r.ins) |-> r.ins[i].self]

\* C14 as stated: every entry a traverse inserts is verified, is inserted
\* after every module it depends on, directly or not, is in the cache as
\* verified, and the handle returned is that of the entry inserted last.
C14_InsertedAfterAllDependencies ==
    [][ret'.op = "traverse" =>
          /\ \A k \in Keys : modules'[k] # modules[k] =>
                 (IsVerified(modules'[k]) /\ k \in Range(Inserted(ret')))
          /\ \A i \in 1..Len(ret'.ins) :
                 \A d \in Reach(Held(modules'), Inserted(ret')[i]) :
                     IsVerified(modules'[d])]_vars

\* C14 as amended: every entry a traverse inserts is verified and is
\* inserted after each dependency it declares is in the cache as verified
\* (cached before the call, or inserted earlier in it); the handle returned
\* is that of the top-level entry, inserted last; and when every verified
\* entry had its dependencies cached as verified before the call, so it is
\* after it.
C14_InsertedAfterDeclaredDependencies ==
    [][ret'.op = "traverse" =>
          /\ \A k \in Keys : modules'[k] # modules[k] =>
                 (IsVerified(modules'[k]) /\ k \in Range(Inserted(ret')))
          /\ Inserted(ret') = SubSeq(ret'.built, 1, Len(ret'.ins))
          /\ \A i \in 1..Len(ret'.ins) :
                 \A d \in Range(ret'.ins[i].deps) :
                     \/ IsVerified(modules[d])
                     \/ \E j \in 1..(i - 1) : Inserted(ret')[j] = d
          /\ ret'.res.ok =>
                 /\ ret'.ins # <<>>
                 /\ ret'.built = Inserted(ret')
                 /\ Last(ret'.built) = ret'.key
                 /\ modules'[ret'.key] = VerifiedEntry(ret'.bytes, ret'.res.module)
          /\ Closed(modules) => Closed(modules')]_vars

\* A traverse verified and inserted four modules, dependencies first.
C14_Witness ==
    /\ ret.op = "traverse"
    /\ ret.res.ok
    /\ ret.n0 = 0
    /\ ret.built = <<"D", "B", "C", "A">>
    /\ Inserted(ret) = ret.built
    /\ \A k \in Keys : IsVerified(modules[k])

\* C15: a fetch whose id equals the cached id returns the cached instance
\* and leaves the cached pair as it is; and of the fetches taken in lock
\* order, a run of fetches that all computed one id all return one and the
\* same instance.
C15_HitReturnsSharedInstance ==
    [][/\ \A w \in Workers :
              (Fetched(w) /\ cachedEnv # None /\ fbuilt[w][1].id = cachedEnv[1].id)
                  => (fret'[w][1] = cachedEnv[1].env /\ cachedEnv' = cachedEnv)
       /\ \A i, j \in 1..Len(flog') :
              (i < j /\ \A k \in i..j : flog'[k].id = flog'[i].id)
                  => flog'[j].env = flog'[i].env]_vars

\* Two workers computed one id and got one instance, the first stored; a
\* third computed another id and got another instance.
C15_Witness ==
    /\ Len(flog) = 3
    /\ flog[1].id = flog[2].id
    /\ flog[1].env = flog[2].env
    /\ flog[1].env.arc = 1
    /\ flog[3].id # flog[1].id
    /\ flog[3].env.arc = 2

\* C16: the environment cache holds at most one pair, whose id is the
\* fingerprint of its environment; after a fetch the stored id is the id the
\* call computed from its snapshot, and the environment returned has that id.
C16_StoredIdIsFingerprint ==
    [][/\ Len(cachedEnv') <= 1
       /\ cachedEnv' # None => cachedEnv'[1].id = EnvironmentID(cachedEnv'[1].env)
       /\ \A w \in Workers : Fetched(w) =>
              /\ cachedEnv' # None
              /\ cachedEnv'[1].id = fbuilt[w][1].id
              /\ EnvironmentID(fret'[w][1]) = fbuilt[w][1].id]_vars

\* A fetch replaced the pair of another id, and a fetch before it had been
\* served from the cache.
C16_Witness ==
    /\ Len(flog) = 3
    /\ flog[2].env = flog[1].env
    /\ flog[3].id # flog[2].id
    /\ cachedEnv # None
    /\ cachedEnv[1].id = flog[3].id
    /\ cachedEnv[1].env = flog[3].env

\* C17: the environment a fetch returns agrees, on every value an accessor
\* exposes, with the environment the call built from its snapshot.
C17_ReturnedAgreesWithBuilt ==
    \A w \in Workers :
        fret[w] # None => Accessors(fret[w][1]) = Accessors(fbuilt[w][1].env)

\* C18: the id is a function of the five fingerprinted values: computed
\* again for an environment it is the same id, and two environments built
\* from snapshots that agree on those values have equal ids.
C18_FingerprintDeterministic ==
    \A w1, w2 \in Workers :
        (fbuilt[w1] # None /\ fbuilt[w2] # None) =>
            /\ EnvironmentID(fbuilt[w1][1].env) = fbuilt[w1][1].id
            /\ Fingerprinted(fbuilt[w1][1].env) = Fingerprinted(fbuilt[w2][1].env)
                   => fbuilt[w1][1].id = fbuilt[w2][1].id

\* Two environments built from snapshots with different gas prices, and
\* equal in the fingerprinted values, have one id.
C18_Witness ==
    \E w1, w2 \in Workers :
        /\ fbuilt[w1] # None
        /\ fbuilt[w2] # None
        /\ fbuilt[w1][1].env.gas_params # fbuilt[w2][1].env.gas_params
        /\ Fingerprinted(fbuilt[w1][1].env) = Fingerprinted(fbuilt[w2][1].env)
        /\ fbuilt[w1][1].id = fbuilt[w2][1].id

\* C19: an environment built from a snapshot with no chain-id configuration
\* reports the test chain identity, and one built from a snapshot that has
\* one reports the stored identity.
C19_ChainIdOrTest ==
    [][\A w \in Workers : Built(w) =>
          fbuilt'[w][1].env.chain_id =
              IF config.chain_id = None THEN ChainIdTest ELSE config.chain_id[1]]_vars

\* One environment was built with no chain id on chain and reports the test
\* identity, another with a stored identity and reports it.
C19_Witness ==
    \E w1, w2 \in Workers :
        /\ fbuilt[w1] # None
        /\ fbuilt[w2] # None
        /\ fbuilt[w1][1].env.chain_id = ChainIdTest
        /\ fbuilt[w2][1].env.chain_id = ChainIdMainnet
        /\ config.chain_id = Some(ChainIdMainnet)

\* C20: the feature set of an environment built from an empty state is the
\* baseline default feature set exactly.
C20_EmptyStateGivesDefaultFeatures ==
    [][\A w \in Workers : (Built(w) /\ config = Genesis) =>
          fbuilt'[w][1].env.features = DefaultFeatures]_vars

\* C21: an environment as Environment::new builds it has the
\* delayed-field-optimization flag false; try_enable_delayed_field_optimization
\* sets it true exactly when the delayed-fields feature is enabled, changes
\* no other field, and applied twice gives what it gives applied once.
C21_DelayedFieldOptimization ==
    /\ \A inject, hook \in BOOLEAN :
           LET e == EnvironmentNew(config, loaderV1, timedOverride, inject, hook)
               t == TryEnableDelayedFieldOptimization(e)
           IN  /\ ~e.vm_config.delayed_field_optimization_enabled
               /\ t.vm_config.delayed_field_optimization_enabled
                      = (DelayedFields \in e.features)
               /\ [t EXCEPT !.vm_config.delayed_field_optimization_enabled = FALSE] = e
               /\ TryEnableDelayedFieldOptimization(t) = t
    /\ \A w \in Workers : fbuilt[w] # None =>
           LET e == fbuilt[w][1].env
           IN  /\ e.vm_config.delayed_field_optimization_enabled
                      = (DelayedFields \in e.features)
               /\ TryEnableDelayedFieldOptimization(e) = e

\* One environment was built with the feature and has the flag, another
\* without the feature and has not.
C21_Witness ==
    \E w1, w2 \in Workers :
        /\ fbuilt[w1] # None
        /\ fbuilt[w2] # None
        /\ DelayedFields \in fbuilt[w1][1].env.features
        /\ fbuilt[w1][1].env.vm_config.delayed_field_optimization_enabled
        /\ DelayedFields \notin fbuilt[w2][1].env.features
        /\ ~fbuilt[w2][1].env.vm_config.delayed_field_optimization_enabled

\* C22: an environment is built from every snapshot; from one whose gas
\* parameters do not resolve, gas_params and storage_gas_params hold the
\* failure reason, the natives are registered with zero native and misc gas
\* parameters, and the type builder is the default one.
C22_BuiltWithoutGasParameters ==
    [][\A w \in Workers : (fbuilt[w] = None /\ config.gas = None) =>
          /\ ENABLED FBuild(w)
          /\ Built(w) =>
                 LET e == fbuilt'[w][1].env
                 IN  /\ ~e.gas_params.ok
                     /\ e.gas_params.val = "gas schedule not found"
                     /\ ~e.storage_gas_params.ok
                     /\ e.natives.native_gas = 0
                     /\ e.natives.misc_gas = 0
                     /\ e.vm_config.ty_builder = "default"]_vars

\* An environment was built from a snapshot with no gas schedule, after one
\* built from a snapshot that has one.
C22_Witness ==
    \E w1, w2 \in Workers :
        /\ fbuilt[w1] # None
        /\ fbuilt[w2] # None
        /\ ~fbuilt[w1][1].env.gas_params.ok
        /\ fbuilt[w1][1].env.natives.native_gas = 0
        /\ fbuilt[w1][1].env.vm_config.ty_builder = "default"
        /\ fbuilt[w2][1].env.gas_params.ok
        /\ fbuilt[w2][1].env.vm_config.ty_builder = "limit-1"

\* C23: only new_with_injected_create_signer_for_gov_sim injects the
\* create-signer native, and the environment fetch caches for block
\* execution never has it injected.
C23_BlockEnvironmentNotInjected ==
    /\ ~AptosEnvironmentNew(config, loaderV1, timedOverride).inject_create_signer_for_gov_sim
    /\ ~NewWithGasHook(config, loaderV1, timedOverride).inject_create_signer_for_gov_sim
    /\ NewWithInjectedCreateSignerForGovSim(config, loaderV1, timedOverride).inject_create_signer_for_gov_sim
    /\ cachedEnv # None =>
           /\ ~cachedEnv[1].env.inject_create_signer_for_gov_sim
           /\ ~cachedEnv[1].env.natives.create_signer

\* C24: a call of maybe_initialize_module_cache that finds the marker module
\* in the loaded mapping returns with no read of the state view, and the
\* shared mapping is the same instance afterwards.
C24_WarmReturnsAtOnce ==
    [][\A w \in Loaders :
          (/\ pl[w].pc = "idle"
           /\ pl'[w].pc # "idle"
           /\ preload # None
           /\ preload[1].map[Marker] # None)
              => /\ pl'[w].pc = "warm"
                 /\ pl'[w].reads = 0
                 /\ preload' = preload]_vars

\* A call with the upgraded framework returned at once on the mapping built
\* from the framework before the upgrade.
C24_Witness ==
    \E w \in Loaders :
        /\ pl[w].pc = "warm"
        /\ pl[w].snap = Framework(2)
        /\ pswaps = <<Framework(1)>>
        /\ preload = Some([arc |-> 1, map |-> Complete(Framework(1))])

\* C25: every get_cached reads no mapping at all, or one of the mappings
\* swapped in, complete: never a mapping with part of the entries of a build
\* in progress.
C25_GetReadsCompleteMapping ==
    /\ pret.seen # None =>
           /\ pret.seen[1].arc \in 1..Len(pswaps)
           /\ pret.seen[1].map = Complete(pswaps[pret.seen[1].arc])
           /\ pret.val = Complete(pswaps[pret.seen[1].arc])[pret.key]
    /\ pret.seen = None => pret.val = None

\* A get_cached found the module in the first mapping while another thread
\* had inserted part of the entries of a second one.
C25_Witness ==
    \E w \in Loaders :
        /\ pret.seen # None
        /\ pret.seen[1].arc = 1
        /\ pret.val # None
        /\ pl[w].pc = "building"
        /\ pl[w].i = 4
        /\ pl[w].framework # pret.seen[1].map

\* C26: after maybe_initialize_module_cache has returned for a state view
\* that has the marker module, get_cached finds every listed module the
\* state view has, whatever the preload cache held before the call.
C26_EveryPresentModuleLoaded ==
    [][\A w \in Loaders :
          (Loaded(w) /\ Marker \in PresentIn(pl'[w].snap))
              => \A n \in PresentIn(pl'[w].snap) : GetCached(preload', n) # None]_vars

\* C27: over calls that are all given one state view of the framework, the
\* marker module in it, the mapping is built and swapped in at most once.
C27_BuiltOncePerFrameworkVersion ==
    (/\ \A w \in Loaders : pl[w].pc # "idle" => pl[w].snap = Framework(1)
     /\ \A i \in 1..Len(pswaps) : pswaps[i] = Framework(1))
        => Len(pswaps) <= 1

\* C28: a build skips the listed modules whose state value or verified form
\* is absent and goes on: the mapping swapped in holds exactly the listed
\* modules the state view has both of, each under its key.
C28_AbsentModulesSkipped ==
    [][\A w \in Loaders :
          /\ (pl[w].pc = "building" /\ pl[w].i <= Len(FrameworkNames)) =>
                 LET sv == pl[w].snap[FrameworkNames[pl[w].i]]
                 IN  (sv.readable /\ sv.verified # "err"
                        /\ (sv.value = None \/ sv.verified = "none"))
                         => /\ pl'[w] # pl[w] => pl'[w].pc = "building"
                            /\ pl'[w].framework = pl[w].framework
          /\ (pl[w].pc = "building" /\ pl'[w].pc = "loaded") =>
                 /\ preload' # None
                 /\ preload'[1].map = Complete(pl[w].snap)]_vars

\* A mapping was swapped in without the module whose verified form is
\* absent, and with the modules listed after it.
C28_Witness ==
    /\ preload # None
    /\ preload[1].map["gas_schedule"] = None
    /\ preload[1].map["code"] # None
    /\ preload[1].map[Marker] # None
    /\ \E w \in Loaders : pl[w].pc = "loaded" /\ pl[w].snap["gas_schedule"].value # None


\* The reads of the base view that failed during the operation recorded.
FailedReads(r) == {i \in 1..Len(r.reads) : r.reads[i] \in r.bad}

\* C29: a traverse during which the read of a dependency from the base view
\* fails returns a storage error (never a linker error); the failed read is
\* its last read; and it leaves unchanged the entry of the module whose
\* dependency was being read and of every module above it on the recursion
\* stack, the top-level module included.
C29_StorageErrorAborts ==
    [][(ret'.op = "traverse" /\ FailedReads(ret') # {}) =>
           /\ ~ret'.res.ok
           /\ ret'.res.code = "STORAGE_ERROR"
           /\ FailedReads(ret') = {Len(ret'.reads)}
           /\ ret'.stack # <<>>
           /\ Last(ret'.stack) = ret'.key
           /\ Last(ret'.reads) \in Range(chain[ret'.stack[1]].deps)
                  \/ Last(ret'.reads) \in Range(modules[ret'.stack[1]].bytes.deps)
           /\ \A k \in Range(ret'.stack) : modules'[k] = modules[k]]_vars

\* A traverse inserted an entry, then went two calls deep and failed there
\* with a storage error on its third read.
C29_Witness ==
    /\ ret.op = "traverse"
    /\ ret.res.code = "STORAGE_ERROR"
    /\ Len(ret.reads) = 3
    /\ Last(ret.reads) \in ret.bad
    /\ Len(ret.ins) = 1
    /\ Len(ret.stack) = 2
    /\ \A k \in Range(ret.stack) : modules[k] = NoEntry

\* The calls of ModuleCache::traverse, begun during the operation recorded,
\* whose entry declares a name other than the key it is expected under.
Mismatched(r) ==
    {i \in 1..Len(r.entered) : r.entered[i].bytes.self # r.entered[i].key}

\* C30: a call of traverse, for the top-level module or for a dependency
\* reached in the walk, whose entry declares a name other than the one it is
\* expected under, fails with the address-or-name-mismatch verification
\* error naming the expected module; no read of the base view and no
\* insertion follows its beginning, and the entry under the expected key
\* is left as it was.
C30_MismatchFailsBeforeDependencies ==
    [][ret'.op = "traverse" =>
           \A i \in Mismatched(ret') :
               LET f == ret'.entered[i] IN
               /\ ret'.res = Err("MODULE_ADDRESS_OR_NAME_MISMATCH", f.key)
               /\ i = Len(ret'.entered)
               /\ Len(ret'.reads) = f.reads
               /\ Len(ret'.ins) = f.ins
               /\ ret'.stack[1] = f.key
               /\ modules'[f.key] = modules[f.key]]_vars

\* A traverse reached, as a dependency read from the base view, an entry
\* that declares another name, and failed there.
C30_Witness ==
    /\ ret.op = "traverse"
    /\ ret.res.code = "MODULE_ADDRESS_OR_NAME_MISMATCH"
    /\ ret.res.at # ret.key
    /\ Len(ret.entered) = 2
    /\ Len(ret.reads) = 1
    /\ ret.reads[1] = ret.res.at
    /\ modules[ret.res.at] = NoEntry

\* C31: a traverse that fails with a cyclic-dependency error names the
\* module the top-level call was invoked on, at whatever depth the cycle is
\* found and whether or not the cycle passes through that module.
C31_CycleErrorNamesTopLevel ==
    [][(ret'.op = "traverse" /\ ret'.res.code = "CYCLIC_MODULE_DEPENDENCY")
           => ret'.res.at = ret'.key]_vars

\* C32: every dependency entry a traverse walks into was built from a read
\* of the base view made just before the walk into it (a cached entry is
\* used only when it is verified, and a verified entry is not walked); and
\* a traverse that succeeds has read every declared dependency of the
\* top-level module that the cache did not hold verified.
C32_UnverifiedCachedIsFetchedAgain ==
    [][ret'.op = "traverse" =>
           /\ \A i \in 2..Len(ret'.entered) :
                  LET f == ret'.entered[i] IN
                  /\ f.reads >= 1
                  /\ ret'.reads[f.reads] = f.key
                  /\ f.bytes = chain[f.key]
           /\ ret'.res.ok =>
                  \A d \in Range(ret'.bytes.deps) :
                      ~IsVerified(modules[d]) => d \in Range(ret'.reads)]_vars

\* The step is a flush that empties the cache.
Flushes == modules' = EmptyModules

\* C33: outside a flush, an entry that is verified stays verified (so a key
\* goes from unverified to verified at most once between two flushes, and
\* never back), and an entry that is cached stays cached; and get returns
\* the entry the cache holds for the key.
C33_VerifiedStaysVerified ==
    [][/\ ~Flushes =>
              \A k \in Keys :
                  /\ IsVerified(modules[k]) => IsVerified(modules'[k])
                  /\ modules[k] # NoEntry => modules'[k] # NoEntry
       /\ ret'.op = "get" => ret'.val = modules[ret'.key]]_vars

\* The features the state view holds, Features::default() when it holds none.
OnChainFeatures(cfg) ==
    IF cfg.features = None THEN DefaultFeatures ELSE cfg.features[1]

\* C34: in every environment built, ENABLE_LOADER_V2 is disabled when the
\* process-wide toggle selects loader v1 and enabled otherwise, whatever the
\* state view holds for the flag (on, off, or no feature configuration); and
\* every other flag is as the state view has it.
C34_LoaderOverrideWins ==
    [][\A w \in Workers : Built(w) =>
          LET f == fbuilt'[w][1].env.features IN
          /\ (LoaderV2 \in f) = ~loaderV1
          /\ f \ {LoaderV2} = OnChainFeatures(config) \ {LoaderV2}]_vars

\* With loader v1 selected, an environment was built without the flag from
\* a state view that has it on; another was built from a state view with no
\* feature configuration.
C34_Witness ==
    \E w, v \in Workers :
        /\ loaderV1
        /\ fbuilt[w] # None
        /\ fbuilt[v] # None
        /\ config.features # None
        /\ LoaderV2 \in config.features[1]
        /\ fbuilt[w][1].env.features = config.features[1] \ {LoaderV2}
        /\ fbuilt[v][1].env.features = DefaultFeatures

\* The bytes a walk finds for each key: the cached entry's, else the view's.
Walked(mods, view) ==
    [k \in Keys |-> IF mods[k] # NoEntry THEN mods[k].bytes ELSE view[k]]

\* The number of modules reachable from the top-level module of w's walk.
Reachable(w) ==
    Cardinality(Reach([Walked(walk[w].m0, chain) EXCEPT ![walk[w].key] = walk[w].bytes],
                      walk[w].key))

\* C35: every traverse begun comes to its end, on graphs with cycles and
\* self-dependencies too; it ends with a verified module, then cached under
\* the top-level key, or with an error that every frame returned; and the
\* recursion is never deeper than the number of modules reachable from the
\* top-level module plus one.
C35_TraverseTerminates ==
    /\ \A w \in Walkers : (walk[w].pc = "walking") ~> (walk[w].pc = "over")
    /\ [](\A w \in Walkers :
            /\ walk[w].pc = "walking" => Len(walk[w].stack) <= Reachable(w) + 1
            /\ walk[w].pc = "over" =>
                   /\ walk[w].stack = <<>>
                   /\ walk[w].res.ok =>
                          /\ IsVerified(modules[walk[w].key])
                          /\ modules[walk[w].key].module = walk[w].res.module
                   /\ ~walk[w].res.ok => Last(walk[w].unwound) = walk[w].key)

\* A walk on the cycle A -> B -> A is as deep as the bound allows: three
\* frames for two reachable modules.
C35_Witness ==
    \E w \in Walkers :
        /\ walk[w].pc = "walking"
        /\ OnCycle(chain, walk[w].key)
        /\ Reachable(w) = 2
        /\ Len(walk[w].stack) = 3

\* C36: the preload mapping changes only in a step of
\* maybe_initialize_module_cache (the swap that ends its build) and only
\* when the mapping loaded at that moment has no marker module; a call that
\* finds the marker, whatever state view it is given, and mark_invalid,
\* flush, flush_if_invalidated, put and traverse on the cross-block cache
\* leave the mapping, and so every result of get_cached, as they were.
C36_PreloadChangesOnlyInLoad ==
    [][/\ preload' # preload =>
              /\ \E w \in Loaders : pl[w].pc = "building" /\ pl'[w].pc = "loaded"
              /\ ~AlreadyWarm(preload)
       /\ (\A w \in Loaders : pl'[w].pc # "loaded" \/ pl[w].pc = "loaded") =>
              \A k \in FrameworkKeys : GetCached(preload', k) = GetCached(preload, k)
       /\ (ret' # ret \/ modules' # modules \/ invalidated' # invalidated) =>
              /\ preload' = preload
              /\ pl' = pl]_vars

\* C37: the invalidated flag, once set, is cleared by no get, put, traverse
\* or mark_invalid, however the calls interleave: a step that clears it is a
\* flush_if_invalidated() or a flush(), and it leaves the cache with no
\* entry; mark_invalid() sets the flag, and is_invalidated() returns it.
C37_InvalidationNeverLost ==
    [][/\ (invalidated /\ ~invalidated') =>
              /\ ret' # ret
              /\ ret'.op \in {"flush_if_invalidated", "flush"}
              /\ ret'.inv0
              /\ modules' = EmptyModules
       /\ (ret' # ret /\ ret'.op = "mark_invalid") => invalidated'
       /\ (ret' # ret /\ ret'.op = "is_invalidated") =>
              (ret'.inv0 = invalidated /\ invalidated' = invalidated)]_vars

\* The flag is still set after a traverse that found it set and inserted
\* entries, while another thread is in the middle of its traverse.
C37_Witness ==
    /\ invalidated
    /\ ret.op = "traverse"
    /\ ret.inv0
    /\ ret.ins # <<>>
    /\ \E w \in Walkers : walk[w].pc = "walking" /\ walk[w].inv0

\* No module reachable from k lies on a dependency cycle.
Acyclic(view, k) == \A m \in Reach(view, k) : ~OnCycle(view, m)

\* C38: with the cache filled by traverses alone, succeeded or failed, a
\* traverse returns a cyclic-dependency error only if a module reachable
\* from the top-level module lies on a cycle; on a diamond, where a
\* dependency is met twice, it returns none.
C38_CycleErrorOnlyOnCycle ==
    [][(ret'.op = "traverse" /\ Acyclic(chain, ret'.key))
           => ret'.res.code # "CYCLIC_MODULE_DEPENDENCY"]_vars

\* On the diamond, after a traverse of A that failed on the read of C and
\* left D and B cached, the traverse of A met D a second time, found it
\* verified, and succeeded.
C38_Witness ==
    /\ ret.op = "traverse"
    /\ ret.key = "A"
    /\ ret.res.ok
    /\ chain["A"].deps = <<"B", "C">>
    /\ chain["B"].deps = <<"D">>
    /\ chain["C"].deps = <<"D">>
    /\ ret.n0 = 2
    /\ ret.reads = <<"C">>
    /\ ret.built = <<"C", "A">>

\* C39: with the cache filled by traverses alone, in every state, every
\* verified entry has each dependency its bytes declare in the cache as a
\* verified entry.
C39_ClosedUnderDependencies == Closed(modules)

\* Four verified entries, one of them for bytes the state view has since
\* replaced, and the cache marked invalid.
C39_Witness ==
    /\ \A k \in Keys : IsVerified(modules[k])
    /\ \E k \in Keys : modules[k].bytes # chain[k]
    /\ \E k \in Keys : modules[k].bytes.deps # <<>>
    /\ invalidated

\* The keys under which the step has put an entry that was not there.
Added == {k \in Keys : modules'[k] # modules[k]}

\* C40 as stated: a traverse that returns an error removes no entry and
\* leaves the invalidated flag as it was; every entry it has put in the cache
\* is a verified entry, put there after its final verification, for a module
\* all of whose dependencies, direct and indirect, are in the cache
\* verified; and it has put no entry under the key of a frame the error
\* returned through, the frame it occurred in and the top-level one included.
C40_FailedTraverseAddsOnlyCompleted ==
    [][(ret'.op = "traverse" /\ ~ret'.res.ok) =>
           /\ \A k \in Keys : modules[k] # NoEntry => modules'[k] # NoEntry
           /\ invalidated' = invalidated
           /\ \A k \in Added :
                  /\ IsVerified(modules'[k])
                  /\ k \in Range(ret'.built)
                  /\ k \in Range(Inserted(ret'))
                  /\ \A d \in Reach(Held(modules'), k) : IsVerified(modules'[d])
           /\ ret'.stack # <<>>
           /\ Last(ret'.stack) = ret'.key
           /\ Added \cap Range(ret'.stack) = {}]_vars

\* C40 as amended: the same, with the dependencies of an entry put in the
\* cache limited to those it declares: each is in the cache verified, found
\* there or put there earlier in the call. Its indirect dependencies are all
\* in the cache verified when every verified entry the cache held before the
\* call had its declared dependencies cached as verified.
C40_FailedTraverseAddsOnlyVerified ==
    [][(ret'.op = "traverse" /\ ~ret'.res.ok) =>
           /\ \A k \in Keys : modules[k] # NoEntry => modules'[k] # NoEntry
           /\ invalidated' = invalidated
           /\ \A k \in Added :
                  /\ IsVerified(modules'[k])
                  /\ k \in Range(ret'.built)
                  /\ k \in Range(Inserted(ret'))
                  /\ \A d \in Range(modules'[k].bytes.deps) :
                         /\ IsVerified(modules'[d])
                         /\ IsVerified(modules[d]) \/ d \in Added
                  /\ Closed(modules) =>
                         \A d \in Reach(Held(modules'), k) : IsVerified(modules'[d])
           /\ ret'.stack # <<>>
           /\ Last(ret'.stack) = ret'.key
           /\ Added \cap Range(ret'.stack) = {}]_vars

\* A traverse failed two calls or more deep after it had put an entry in a
\* cache that held one already, which is still there.
C40_Witness ==
    /\ ret.op = "traverse"
    /\ ~ret.res.ok
    /\ Len(ret.stack) >= 2
    /\ Len(ret.ins) = 1
    /\ ret.n0 = 1
    /\ Size(modules) = 2
    /\ \A k \in Range(ret.stack) : ~IsVerified(modules[k])

=============================================================================
